---- MODULE Spec2Model ----
(***************************************************************************)
(* LFU cache of internal/lfu/lfu.go: an index (Go map) from keys to entry  *)
(* nodes, a doubly-linked sequence of frequency buckets, and inside every  *)
(* bucket a doubly-linked list of entries ordered by recency of touch.     *)
(* Pointers are addresses into two arenas (entry nodes, bucket nodes); an  *)
(* arena is a function whose DOMAIN is the set of allocated addresses.     *)
(***************************************************************************)
EXTENDS Integers, Sequences, FiniteSets, TLC

\* ---------------------------------------------------------------- bounds
\* Largest capacity a cache is constructed with.
MaxCapacity == 2
\* Largest number of touches (Get or Put of a cached key) the cached keys
\* may have received together; a key's frequency is at most MaxTouches + 1.
MaxTouches == 3

\* The cache is generic in K and V; here K is int and V is bool.  One key
\* more than the largest capacity, so that a full cache still has an absent
\* key to insert.
Keys == 1..(MaxCapacity + 1)
Values == BOOLEAN

\* nil pointer; addresses are positive.
NIL == 0
\* the zero value of V, returned by Get with ErrKeyNotFound.
ZeroValue == FALSE

EntryAddrs == Keys
BucketAddrs == 1..(MaxCapacity + MaxTouches + 3)

\* F applied to the value of v: a local variable assigned once.
Bind(v, F(_)) == CHOOSE y \in {F(x) : x \in {v}} : TRUE

SetMin(S) == CHOOSE x \in S : \A y \in S : x <= y

\* new(T): a fresh address, i.e. any address that is not allocated.  The
\* program cannot observe which one it gets, so one is picked: the hinted
\* address when it is free, the smallest free address otherwise.
new(nodes, addrs, hint) ==
    IF hint \in addrs \ DOMAIN nodes THEN hint ELSE SetMin(addrs \ DOMAIN nodes)

\* ----------------------------------------------------------- linkedList
\* A list is [head, tail]; a node is [data, next, prev].  Every operation
\* returns the arena and the list after the call.

emptyList == [head |-> NIL, tail |-> NIL]

isEmpty(l) == l.head = NIL

\* Variant of addNode that links the node at the head end.
addNodeAtHead(nodes, l, node) ==
    IF l.head = NIL
    THEN [nodes |-> [nodes EXCEPT ![node].next = l.head, ![node].prev = NIL],
          l     |-> [head |-> node, tail |-> node],
          node  |-> node]
    ELSE [nodes |-> [nodes EXCEPT ![node].next = l.head, ![node].prev = NIL,
                                  ![l.head].prev = node],
          l     |-> [l EXCEPT !.head = node],
          node  |-> node]

addNode(nodes, l, node) ==
    IF l.tail = NIL
    THEN [nodes |-> [nodes EXCEPT ![node].prev = l.tail, ![node].next = NIL],
          l     |-> [head |-> node, tail |-> node],
          node  |-> node]
    ELSE [nodes |-> [nodes EXCEPT ![node].prev = l.tail, ![node].next = NIL,
                                  ![l.tail].next = node],
          l     |-> [l EXCEPT !.tail = node],
          node  |-> node]

\* The arena with a node allocated at addr, holding data and nil pointers.
alloc(nodes, addr, data) ==
    [a \in DOMAIN nodes \cup {addr} |->
        IF a = addr THEN [data |-> data, next |-> NIL, prev |-> NIL]
        ELSE nodes[a]]

add(nodes, l, data, addr) ==
    Bind(alloc(nodes, addr, data), LAMBDA n0 : addNode(n0, l, addr))

\* Variant of insertAfter that does not set the prev pointer of the node
\* that follows the new one.
insertAfterNoBackLink(nodes, l, pivot, data, addr) ==
    Bind(nodes[pivot].next, LAMBDA pNext :
    Bind(alloc(nodes, addr, data), LAMBDA n0 :
        IF pNext # NIL
        THEN [nodes |-> [n0 EXCEPT ![pivot].next = addr,
                                   ![addr].prev = pivot, ![addr].next = pNext],
              l     |-> l,
              node  |-> addr]
        ELSE [nodes |-> [n0 EXCEPT ![pivot].next = addr,
                                   ![addr].prev = pivot, ![addr].next = pNext],
              l     |-> [l EXCEPT !.tail = addr],
              node  |-> addr]))

\* Variant of insertAfter that does not set the pivot's next pointer.
insertAfterNoForwardLink(nodes, l, pivot, data, addr) ==
    Bind(nodes[pivot].next, LAMBDA pNext :
    Bind(alloc(nodes, addr, data), LAMBDA n0 :
        IF pNext # NIL
        THEN [nodes |-> [n0 EXCEPT ![addr].prev = pivot, ![addr].next = pNext,
                                   ![pNext].prev = addr],
              l     |-> l,
              node  |-> addr]
        ELSE [nodes |-> [n0 EXCEPT ![addr].prev = pivot, ![addr].next = pNext],
              l     |-> [l EXCEPT !.tail = addr],
              node  |-> addr]))

insertAfter(nodes, l, pivot, data, addr) ==
    Bind(nodes[pivot].next, LAMBDA pNext :
    Bind(alloc(nodes, addr, data), LAMBDA n0 :
        IF pNext # NIL
        THEN [nodes |-> [n0 EXCEPT ![pivot].next = addr,
                                   ![addr].prev = pivot, ![addr].next = pNext,
                                   ![pNext].prev = addr],
              l     |-> l,
              node  |-> addr]
        ELSE [nodes |-> [n0 EXCEPT ![pivot].next = addr,
                                   ![addr].prev = pivot, ![addr].next = pNext],
              l     |-> [l EXCEPT !.tail = addr],
              node  |-> addr]))

\* Variant of remove that empties the list when the node is its head or
\* its tail.
removeClearsList(nodes, l, node) ==
    IF l.head = node \/ l.tail = node
    THEN [nodes |-> nodes, l |-> emptyList]
    ELSE Bind(nodes[node].prev, LAMBDA nPrev :
         Bind(nodes[node].next, LAMBDA nNext :
         Bind(IF nPrev # NIL
              THEN [nodes |-> [nodes EXCEPT ![nPrev].next = nNext], l |-> l]
              ELSE [nodes |-> nodes, l |-> [l EXCEPT !.head = nNext]], LAMBDA r :
              IF nNext # NIL
              THEN [nodes |-> [r.nodes EXCEPT ![nNext].prev = nPrev], l |-> r.l]
              ELSE [nodes |-> r.nodes, l |-> [r.l EXCEPT !.tail = nPrev]])))

\* Variant of remove that leaves the list's tail as it was when the last
\* node of a longer list is removed.
removeKeepsTail(nodes, l, node) ==
    IF l.head = node /\ l.tail = node
    THEN [nodes |-> nodes, l |-> emptyList]
    ELSE Bind(nodes[node].prev, LAMBDA nPrev :
         Bind(nodes[node].next, LAMBDA nNext :
         Bind(IF nPrev # NIL
              THEN [nodes |-> [nodes EXCEPT ![nPrev].next = nNext], l |-> l]
              ELSE [nodes |-> nodes, l |-> [l EXCEPT !.head = nNext]], LAMBDA r :
              IF nNext # NIL
              THEN [nodes |-> [r.nodes EXCEPT ![nNext].prev = nPrev], l |-> r.l]
              ELSE [nodes |-> r.nodes, l |-> r.l])))

remove(nodes, l, node) ==
    IF l.head = node /\ l.tail = node
    THEN [nodes |-> nodes, l |-> emptyList]
    ELSE Bind(nodes[node].prev, LAMBDA nPrev :
         Bind(nodes[node].next, LAMBDA nNext :
         Bind(IF nPrev # NIL
              THEN [nodes |-> [nodes EXCEPT ![nPrev].next = nNext], l |-> l]
              ELSE [nodes |-> nodes, l |-> [l EXCEPT !.head = nNext]], LAMBDA r :
              IF nNext # NIL
              THEN [nodes |-> [r.nodes EXCEPT ![nNext].prev = nPrev], l |-> r.l]
              ELSE [nodes |-> r.nodes, l |-> [r.l EXCEPT !.tail = nPrev]])))

\* ------------------------------------------------------------ cacheImpl
\* A cache value h is [index, entries, buckets, sequence, capacity]: the
\* index map, the two arenas, the bucket sequence and the capacity.  An
\* entry node's data is cacheData [key, value, container]; a bucket node's
\* data is sameFreqContainer [freq, entries].

cacheData(key, value, container) ==
    [key |-> key, value |-> value, container |-> container]

sameFreqContainer(freq) == [freq |-> freq, entries |-> emptyList]

\* What the garbage collector keeps: the nodes reachable from the index and
\* the sequence through next, prev, head, tail and container pointers.
RECURSIVE Reach(_, _, _)
Reach(h, E, B) ==
    Bind((E \cup {h.entries[e].next : e \in E}
            \cup {h.entries[e].prev : e \in E}
            \cup {h.buckets[b].data.entries.head : b \in B}
            \cup {h.buckets[b].data.entries.tail : b \in B})
         \cap DOMAIN h.entries, LAMBDA E1 :
    Bind((B \cup {h.buckets[b].next : b \in B}
            \cup {h.buckets[b].prev : b \in B}
            \cup {h.entries[e].data.container : e \in E})
         \cap DOMAIN h.buckets, LAMBDA B1 :
        IF E1 = E /\ B1 = B THEN [E |-> E, B |-> B] ELSE Reach(h, E1, B1)))

Collect(h) ==
    Bind(Reach(h, {h.index[k] : k \in DOMAIN h.index} \cap DOMAIN h.entries,
                  {h.sequence.head, h.sequence.tail} \cap DOMAIN h.buckets),
         LAMBDA r : [h EXCEPT !.entries = [e \in r.E |-> h.entries[e]],
                              !.buckets = [b \in r.B |-> h.buckets[b]]])

emptyMap == [a \in {} |-> NIL]

\* New(capacity), for a capacity the constructor accepts (capacity >= 0): an
\* empty index and a sequence holding the one bucket of frequency 1.
New(capacity) ==
    Bind(add(emptyMap, emptyList, sameFreqContainer(1),
             new(emptyMap, BucketAddrs, 1)),
         LAMBDA r : [index |-> emptyMap, entries |-> emptyMap,
                     buckets |-> r.nodes, sequence |-> r.l,
                     capacity |-> capacity])

Size(h) == Cardinality(DOMAIN h.index)

Capacity(h) == h.capacity

\* Variant of touch that always makes a new bucket for the new frequency.
touchAlwaysNewBucket(h, n) ==
    Bind(h.entries[n].data.container, LAMBDA c :
    Bind(h.buckets[c].data.freq + 1, LAMBDA newFreq :
    Bind(remove(h.entries, h.buckets[c].data.entries, n), LAMBDA r1 :
    Bind([h.buckets EXCEPT ![c].data.entries = r1.l], LAMBDA b1 :
    Bind(insertAfter(b1, h.sequence, c, sameFreqContainer(newFreq),
                     new(b1, BucketAddrs, newFreq)), LAMBDA r2 :
    Bind(addNode(r1.nodes, r2.nodes[r2.node].data.entries, n), LAMBDA r3 :
    Bind([r2.nodes EXCEPT ![r2.node].data.entries = r3.l], LAMBDA b3 :
    Bind(IF isEmpty(b3[c].data.entries) /\ b3[c].data.freq > 1
         THEN remove(b3, r2.l, c)
         ELSE [nodes |-> b3, l |-> r2.l], LAMBDA r4 :
        [h EXCEPT !.entries = [r3.nodes EXCEPT ![n].data.container = r2.node],
                  !.buckets = r4.nodes,
                  !.sequence = r4.l]))))))))

\* Variant of touch that leaves the entry's container reference as it was.
touchKeepsContainer(h, n) ==
    Bind(h.entries[n].data.container, LAMBDA c :
    Bind(h.buckets[c].data.freq + 1, LAMBDA newFreq :
    Bind(remove(h.entries, h.buckets[c].data.entries, n), LAMBDA r1 :
    Bind([h.buckets EXCEPT ![c].data.entries = r1.l], LAMBDA b1 :
    Bind(IF b1[c].next = NIL \/ b1[b1[c].next].data.freq > newFreq
         THEN insertAfter(b1, h.sequence, c, sameFreqContainer(newFreq),
                          new(b1, BucketAddrs, newFreq))
         ELSE [nodes |-> b1, l |-> h.sequence, node |-> b1[c].next], LAMBDA r2 :
    Bind(addNode(r1.nodes, r2.nodes[r2.node].data.entries, n), LAMBDA r3 :
    Bind([r2.nodes EXCEPT ![r2.node].data.entries = r3.l], LAMBDA b3 :
    Bind(IF isEmpty(b3[c].data.entries) /\ b3[c].data.freq > 1
         THEN remove(b3, r2.l, c)
         ELSE [nodes |-> b3, l |-> r2.l], LAMBDA r4 :
        [h EXCEPT !.entries = r3.nodes,
                  !.buckets = r4.nodes,
                  !.sequence = r4.l]))))))))

touch(h, n) ==
    Bind(h.entries[n].data.container, LAMBDA c :
    Bind(h.buckets[c].data.freq + 1, LAMBDA newFreq :
    \* n.data.container.data.entries.remove(n)
    Bind(remove(h.entries, h.buckets[c].data.entries, n), LAMBDA r1 :
    Bind([h.buckets EXCEPT ![c].data.entries = r1.l], LAMBDA b1 :
    \* target: a new bucket after c, or the bucket that follows c
    Bind(IF b1[c].next = NIL \/ b1[b1[c].next].data.freq > newFreq
         THEN insertAfter(b1, h.sequence, c, sameFreqContainer(newFreq),
                          new(b1, BucketAddrs, newFreq))
         ELSE [nodes |-> b1, l |-> h.sequence, node |-> b1[c].next], LAMBDA r2 :
    \* target.data.entries.addNode(n)
    Bind(addNode(r1.nodes, r2.nodes[r2.node].data.entries, n), LAMBDA r3 :
    Bind([r2.nodes EXCEPT ![r2.node].data.entries = r3.l], LAMBDA b3 :
    Bind(IF isEmpty(b3[c].data.entries) /\ b3[c].data.freq > 1
         THEN remove(b3, r2.l, c)
         ELSE [nodes |-> b3, l |-> r2.l], LAMBDA r4 :
        [h EXCEPT !.entries = [r3.nodes EXCEPT ![n].data.container = r2.node],
                  !.buckets = r4.nodes,
                  !.sequence = r4.l]))))))))

\* Variant of Get that reads the value without touching the entry.
GetWithoutTouch(h, key) ==
    IF key \notin DOMAIN h.index
    THEN [h |-> h, ret |-> ZeroValue, err |-> "ErrKeyNotFound"]
    ELSE [h |-> h, ret |-> h.entries[h.index[key]].data.value, err |-> "nil"]

\* Get returns the cache after the call, the value and the error.
Get(h, key) ==
    IF key \notin DOMAIN h.index
    THEN [h |-> h, ret |-> ZeroValue, err |-> "ErrKeyNotFound"]
    ELSE Bind(touch(h, h.index[key]), LAMBDA h1 :
              [h |-> h1, ret |-> h1.entries[h.index[key]].data.value,
               err |-> "nil"])

\* Variant of update that touches but keeps the old value.
updateKeepsValue(h, n, value) == touch(h, n)

\* Put, key present: touch and overwrite the value.
update(h, n, value) ==
    Bind(touch(h, n), LAMBDA h1 : [h1 EXCEPT !.entries[n].data.value = value])

\* Variant of overflow that evicts only once the cache is over capacity.
overflowLate(h) == Size(h) > Capacity(h)

\* Put, key absent: the test that decides whether to evict.
overflow(h) == Size(h) + 1 > Capacity(h)

\* The eviction scan: the first bucket from cur on whose entry list is not
\* empty.  NIL is the scan stepping past the tail: the loop condition then
\* dereferences a nil cur and the call panics.
RECURSIVE scan(_, _)
scan(h, cur) ==
    IF cur = NIL THEN NIL
    ELSE IF isEmpty(h.buckets[cur].data.entries) THEN scan(h, h.buckets[cur].next)
    ELSE cur

\* Variant of evict that removes the tail, the most recently touched entry.
evictNewest(h, cur) ==
    Bind(h.buckets[cur].data.entries.tail, LAMBDA tail :
    Bind(remove(h.entries, h.buckets[cur].data.entries, tail), LAMBDA r :
        [h EXCEPT !.entries = r.nodes,
                  !.buckets[cur].data.entries = r.l,
                  !.index = [k \in DOMAIN h.index \ {h.entries[tail].data.key}
                                |-> h.index[k]]]))

\* Variant of evict that unlinks the entry but leaves its key in the index.
evictKeepsIndex(h, cur) ==
    Bind(h.buckets[cur].data.entries.head, LAMBDA head :
    Bind(remove(h.entries, h.buckets[cur].data.entries, head), LAMBDA r :
        [h EXCEPT !.entries = r.nodes,
                  !.buckets[cur].data.entries = r.l]))

\* Remove the head of bucket cur's entry list and delete its key.
evict(h, cur) ==
    Bind(h.buckets[cur].data.entries.head, LAMBDA head :
    Bind(remove(h.entries, h.buckets[cur].data.entries, head), LAMBDA r :
        [h EXCEPT !.entries = r.nodes,
                  !.buckets[cur].data.entries = r.l,
                  !.index = [k \in DOMAIN h.index \ {h.entries[head].data.key}
                                |-> h.index[k]]]))

\* Add a new entry at the tail of the first bucket and index it.
insert(h, key, value) ==
    Bind(h.sequence.head, LAMBDA first :
    Bind(add(h.entries, h.buckets[first].data.entries,
             cacheData(key, value, first), new(h.entries, EntryAddrs, key)),
         LAMBDA r :
        [h EXCEPT !.entries = r.nodes,
                  !.buckets[first].data.entries = r.l,
                  !.index = [k \in DOMAIN h.index \cup {key} |->
                                IF k = key THEN r.node ELSE h.index[k]]]))

\* Variant of Put that replaces the entry of a cached key by a new entry.
PutReinserts(h, key, value) ==
    IF key \in DOMAIN h.index
    THEN Bind(h.index[key], LAMBDA n :
         Bind(h.entries[n].data.container, LAMBDA c :
         Bind(remove(h.entries, h.buckets[c].data.entries, n), LAMBDA r :
             [h |-> insert([h EXCEPT !.entries = r.nodes,
                                     !.buckets[c].data.entries = r.l,
                                     !.index = [k \in DOMAIN h.index \ {key}
                                                   |-> h.index[k]]],
                           key, value),
              panic |-> FALSE])))
    ELSE IF overflow(h)
    THEN Bind(scan(h, h.sequence.head), LAMBDA cur :
             IF cur = NIL
             THEN [h |-> h, panic |-> TRUE]
             ELSE Bind(evict(h, cur), LAMBDA h1 :
                      [h |-> insert(h1, key, value), panic |-> FALSE]))
    ELSE [h |-> insert(h, key, value), panic |-> FALSE]

\* Variant of Put that makes room before it looks the key up.
PutEvictsFirst(h, key, value) ==
    Bind(scan(h, h.sequence.head), LAMBDA cur :
    Bind(IF overflow(h) /\ cur # NIL THEN evict(h, cur) ELSE h, LAMBDA h0 :
        IF key \in DOMAIN h0.index
        THEN [h |-> update(h0, h0.index[key], value), panic |-> FALSE]
        ELSE [h |-> insert(h0, key, value), panic |-> FALSE]))

\* Put returns the cache after the call and whether the call panicked (a
\* panic leaves the cache as it was: nothing has been written yet).
Put(h, key, value) ==
    IF key \in DOMAIN h.index
    THEN [h |-> update(h, h.index[key], value), panic |-> FALSE]
    ELSE IF overflow(h)
    THEN Bind(scan(h, h.sequence.head), LAMBDA cur :
             IF cur = NIL
             THEN [h |-> h, panic |-> TRUE]
             ELSE Bind(evict(h, cur), LAMBDA h1 :
                      [h |-> insert(h1, key, value), panic |-> FALSE]))
    ELSE [h |-> insert(h, key, value), panic |-> FALSE]

\* The iterator of All, run with a yield that returns false on its
\* stopAt-th call (stopAt = 0: never).  out is what has been yielded.
RECURSIVE iterEntries(_, _, _, _)
iterEntries(h, curEntry, out, stopAt) ==
    IF curEntry = NIL THEN [out |-> out, stopped |-> FALSE]
    ELSE Bind(Append(out, <<h.entries[curEntry].data.key,
                            h.entries[curEntry].data.value>>), LAMBDA out1 :
             IF Len(out1) = stopAt
             THEN [out |-> out1, stopped |-> TRUE]
             ELSE Bind(h.entries[curEntry].prev, LAMBDA prev :
                      iterEntries(h, prev, out1, stopAt)))

RECURSIVE iterBuckets(_, _, _, _)
iterBuckets(h, curFreq, out, stopAt) ==
    IF curFreq = NIL THEN out
    ELSE Bind(iterEntries(h, h.buckets[curFreq].data.entries.tail, out, stopAt),
              LAMBDA r :
                 IF r.stopped THEN r.out
                 ELSE Bind(h.buckets[curFreq].prev, LAMBDA prev :
                          iterBuckets(h, prev, r.out, stopAt)))

\* Variant of All that walks with the sequence's own tail pointer, leaving
\* it nil.
AllMovesTail(h, stopAt) ==
    [h |-> [h EXCEPT !.sequence.tail = NIL],
     out |-> iterBuckets(h, h.sequence.tail, <<>>, stopAt)]

\* All returns the cache after the iteration and the pairs yielded.
All(h, stopAt) ==
    [h |-> h, out |-> iterBuckets(h, h.sequence.tail, <<>>, stopAt)]

\* Variant of GetKeyFrequency that reports an absent key as frequency 0
\* without an error.
GetKeyFrequencyNoError(h, key) ==
    IF key \notin DOMAIN h.index
    THEN [h |-> h, ret |-> 0, err |-> "nil"]
    ELSE [h |-> h,
          ret |-> h.buckets[h.entries[h.index[key]].data.container].data.freq,
          err |-> "nil"]

GetKeyFrequency(h, key) ==
    IF key \notin DOMAIN h.index
    THEN [h |-> h, ret |-> 0, err |-> "ErrKeyNotFound"]
    ELSE [h |-> h,
          ret |-> h.buckets[h.entries[h.index[key]].data.container].data.freq,
          err |-> "nil"]

\* ------------------------------------------------------- reference model
\* Kept beside the cache and never read by it: for every cached key the
\* number of accesses since its insertion (the insertion included), the
\* value of its latest Put, and the cached keys in the order of their
\* latest touch, least recent first.

Without(seq, S) == SelectSeq(seq, LAMBDA k : k \notin S)

\* Position of k in seq (0 when absent).
Pos(seq, k) ==
    IF \E i \in 1..Len(seq) : seq[i] = k
    THEN CHOOSE i \in 1..Len(seq) : seq[i] = k
    ELSE 0

\* -------------------------------------------------------- state machine
VARIABLES
    l,         \* the cache: a cacheImpl and the nodes it points to
    lastOp,    \* the latest call and what it returned
    refFreq,   \* reference: key -> accesses since insertion
    refVal,    \* reference: key -> value of the latest Put
    refOrder   \* reference: cached keys, least recently touched first

vars == <<l, lastOp, refFreq, refVal, refOrder>>

\* The sum of the frequencies of the keys K.
RECURSIVE SumFreq(_, _)
SumFreq(h, K) ==
    IF K = {} THEN 0
    ELSE Bind(CHOOSE x \in K : TRUE, LAMBDA k :
             GetKeyFrequency(h, k).ret + SumFreq(h, K \ {k}))

\* Touches the cached keys have received since their insertions.
Touches(h) == SumFreq(h, DOMAIN h.index) - Size(h)

\* value and ret are meaningful for the calls that take or return a value.
NoOp == [op |-> "New", key |-> 0, value |-> ZeroValue, ret |-> ZeroValue,
         freq |-> 0, err |-> "nil", evicted |-> {}, out |-> <<>>]

\* A cache as New(capacity) returns it, for the capacities 0..MaxCapacity.
\* (New() without an argument is New(DefaultCapacity), a capacity of 5.)
Init ==
    /\ \E capacity \in 0..MaxCapacity : l = New(capacity)
    /\ lastOp = NoOp
    /\ refFreq = emptyMap
    /\ refVal = emptyMap
    /\ refOrder = <<>>

\* The reference model after a call that left the keys `gone`, then touched
\* or inserted `key` (isPut: a Put of `value`).
RefStep(gone, key, isPut, value) ==
    \E kept \in {DOMAIN refFreq \ gone} :
        /\ refFreq' = [k \in kept \cup {key} |->
                          IF k = key
                          THEN (IF key \in kept THEN refFreq[key] + 1 ELSE 1)
                          ELSE refFreq[k]]
        /\ refVal' = [k \in kept \cup {key} |->
                          IF k = key /\ isPut THEN value ELSE refVal[k]]
        /\ refOrder' = Append(Without(refOrder, gone \cup {key}), key)

CallGet(key) ==
    \E r \in {Get(l, key)} :
        /\ r.err = "nil" => Touches(l) < MaxTouches
        /\ l' = Collect(r.h)
        /\ lastOp' = [NoOp EXCEPT !.op = "Get", !.key = key, !.ret = r.ret,
                                  !.err = r.err]
        /\ IF r.err = "nil"
           THEN RefStep({}, key, FALSE, ZeroValue)
           ELSE UNCHANGED <<refFreq, refVal, refOrder>>

CallPut(key, value) ==
    \E r \in {Put(l, key, value)} :
    \E gone \in {DOMAIN l.index \ DOMAIN r.h.index} :
        /\ key \in DOMAIN l.index => Touches(l) < MaxTouches
        /\ l' = Collect(r.h)
        /\ lastOp' = [NoOp EXCEPT !.op = "Put", !.key = key, !.value = value,
                                  !.err = IF r.panic THEN "panic" ELSE "nil",
                                  !.evicted = gone]
        /\ IF r.panic
           THEN UNCHANGED <<refFreq, refVal, refOrder>>
           ELSE RefStep(gone, key, TRUE, value)

CallAll(stopAt) ==
    \E r \in {All(l, stopAt)} :
        /\ l' = Collect(r.h)
        /\ lastOp' = [NoOp EXCEPT !.op = "All", !.out = r.out]
        /\ UNCHANGED <<refFreq, refVal, refOrder>>

CallGetKeyFrequency(key) ==
    \E r \in {GetKeyFrequency(l, key)} :
        /\ l' = Collect(r.h)
        /\ lastOp' = [NoOp EXCEPT !.op = "GetKeyFrequency", !.key = key,
                                  !.freq = r.ret, !.err = r.err]
        /\ UNCHANGED <<refFreq, refVal, refOrder>>

Next ==
    \/ \E key \in Keys : CallGet(key)
    \/ \E key \in Keys, value \in Values : CallPut(key, value)
    \/ \E stopAt \in 0..MaxCapacity : CallAll(stopAt)
    \/ \E key \in Keys : CallGetKeyFrequency(key)

Spec == Init /\ [][Next]_vars

\* ---------------------------------------------------------- observations
\* What a caller sees of a cache h through its public methods.

\* The pairs of a complete All() traversal, and their keys.
AllPairs(h) == All(h, 0).out

AllKeys(h) ==
    Bind(AllPairs(h), LAMBDA ps : [i \in 1..Len(ps) |-> ps[i][1]])

\* The value stored for a cached key (what Get returns).
StoredValue(h, k) == h.entries[h.index[k]].data.value

IsPrefix(s, t) == Len(s) <= Len(t) /\ SubSeq(t, 1, Len(s)) = s

\* Reference order: a precedes b in All() when a is more frequent, or as
\* frequent and touched later.
RefBefore(a, b) ==
    \/ refFreq[a] > refFreq[b]
    \/ refFreq[a] = refFreq[b] /\ Pos(refOrder, a) > Pos(refOrder, b)

\* --------------------------------------------------------------- claims

\* C1: for a cache of capacity >= 1, Size() <= Capacity() in every reachable
\* state, whatever Put, Get, GetKeyFrequency and All calls were made.
SizeWithinCapacity == Capacity(l) >= 1 => Size(l) <= Capacity(l)

\* A Put on a full cache has evicted and the cache is full again.
FullAfterEviction ==
    /\ Capacity(l) >= 1
    /\ lastOp.op = "Put" /\ lastOp.evicted # {}
    /\ Size(l) = Capacity(l)

\* C2: Put never fails: for every capacity >= 0 (0 included) and in every
\* reachable state, Put(key, value) runs to completion without a panic.
PutNeverPanics == ~(lastOp.op = "Put" /\ lastOp.err = "panic")

\* C3: when a Put of an absent key evicts, the evicted key has the minimal
\* frequency among the cached keys and, among the keys of that frequency, is
\* the least recently touched one (frequencies and touch order taken from
\* the reference model, in the state before the Put).
EvictsLeastFrequentLeastRecent ==
    [][(lastOp'.op = "Put" /\ lastOp'.evicted # {}) =>
          \A e \in lastOp'.evicted :
              /\ e \in DOMAIN refFreq
              /\ \A k \in DOMAIN refFreq \ {e} : RefBefore(k, e)]_vars

\* A Put has evicted while a key of frequency > 1 stayed cached.
EvictedBelowFrequentKey ==
    /\ lastOp.op = "Put" /\ lastOp.evicted # {}
    /\ \E k \in DOMAIN refFreq : refFreq[k] > 1

\* C4: All() yields the cached pairs in descending order of frequency and,
\* among keys of equal frequency, the more recently touched key first
\* (frequency and touch order as recorded by the reference model).
AllDescendingFrequencyThenRecency ==
    \A ks \in {AllKeys(l)} :
        \A i, j \in 1..Len(ks) :
            i < j => /\ ks[i] \in DOMAIN refFreq
                     /\ ks[j] \in DOMAIN refFreq
                     /\ RefBefore(ks[i], ks[j])

\* All() has run to its end over two keys of the same frequency > 1.
AllOverEqualFrequencies ==
    /\ lastOp.op = "All" /\ Len(lastOp.out) = 2
    /\ \E a, b \in DOMAIN refFreq : a # b /\ refFreq[a] = refFreq[b] /\ refFreq[a] > 1

\* C5: for every cached key, GetKeyFrequency(k) is 1 plus the number of
\* successful Get(k) and Put(k, _)-on-existing calls since its insertion
\* (the reference count, which GetKeyFrequency and All calls do not change).
FrequencyCountsAccesses ==
    /\ \A k \in DOMAIN l.index :
          /\ k \in DOMAIN refFreq
          /\ GetKeyFrequency(l, k).err = "nil"
          /\ GetKeyFrequency(l, k).ret = refFreq[k]
    /\ (lastOp.op = "GetKeyFrequency" /\ lastOp.key \in DOMAIN refFreq) =>
          (lastOp.err = "nil" /\ lastOp.freq = refFreq[lastOp.key])

\* GetKeyFrequency has returned 3: the key was inserted and accessed twice.
FrequencyThreeReturned ==
    lastOp.op = "GetKeyFrequency" /\ lastOp.err = "nil" /\ lastOp.freq = 3

\* C6: for capacity >= 1, Get(k) on a cached key returns without error the
\* value of the latest Put(k, _), and the call changes no stored value.
GetReturnsLatestPut ==
    [][(Capacity(l) >= 1 /\ lastOp'.op = "Get" /\ lastOp'.key \in DOMAIN refVal) =>
          /\ lastOp'.err = "nil"
          /\ lastOp'.ret = refVal[lastOp'.key]
          /\ DOMAIN l'.index = DOMAIN l.index
          /\ \A k \in DOMAIN l.index : StoredValue(l', k) = StoredValue(l, k)]_vars

\* Get has returned a key's value while another key holds the other value.
GetAmongOtherValues ==
    /\ lastOp.op = "Get" /\ lastOp.err = "nil"
    /\ \E k \in DOMAIN l.index : k # lastOp.key /\ StoredValue(l, k) # lastOp.ret

\* C7: Get(k) and GetKeyFrequency(k) on a key that is not cached return
\* ErrKeyNotFound and leave the whole cache unchanged (index, nodes, bucket
\* sequence, order inside every bucket, capacity).
AbsentKeyLookupIsNoOp ==
    [][(lastOp'.op \in {"Get", "GetKeyFrequency"} /\ lastOp'.key \notin DOMAIN refFreq) =>
          (lastOp'.err = "ErrKeyNotFound" /\ l' = l)]_vars

\* A lookup of an absent key has failed on a cache that holds other keys.
AbsentKeyLookedUp ==
    /\ lastOp.op \in {"Get", "GetKeyFrequency"}
    /\ lastOp.err = "ErrKeyNotFound"
    /\ Size(l) >= 1

\* Every other key of k's frequency comes after k in All(): k is the most
\* recently touched key of its frequency.
FirstOfItsFrequency(h, k) ==
    \A ks \in {AllKeys(h)} :
        \A j \in DOMAIN h.index \ {k} :
            GetKeyFrequency(h, j).ret = GetKeyFrequency(h, k).ret =>
                Pos(ks, k) < Pos(ks, j)

\* C8: Put(k, v) on a cached key evicts nothing, even on a full cache: the
\* key set and Size() are unchanged, k's value becomes v, k's frequency
\* grows by exactly 1 and k is the most recently touched key of its new
\* frequency.
PutExistingOnlyTouches ==
    [][(lastOp'.op = "Put" /\ lastOp'.key \in DOMAIN refFreq) =>
          /\ lastOp'.err = "nil"
          /\ DOMAIN l'.index = DOMAIN l.index
          /\ Size(l') = Size(l)
          /\ lastOp'.key \in DOMAIN l.index
          /\ StoredValue(l', lastOp'.key) = lastOp'.value
          /\ GetKeyFrequency(l', lastOp'.key).ret
                = GetKeyFrequency(l, lastOp'.key).ret + 1
          /\ FirstOfItsFrequency(l', lastOp'.key)]_vars

\* A Put has updated a key of a full cache and the key has joined another
\* key's frequency.
PutExistingOnFullCache ==
    /\ lastOp.op = "Put" /\ lastOp.err = "nil" /\ lastOp.evicted = {}
    /\ Size(l) = Capacity(l)
    /\ lastOp.key \in DOMAIN refFreq /\ refFreq[lastOp.key] > 1
    /\ \E j \in DOMAIN refFreq \ {lastOp.key} : refFreq[j] = refFreq[lastOp.key]

\* C9: Put(k, v) of an absent key on a cache of capacity >= 1: below
\* capacity no key is removed and Size() grows by 1; at capacity exactly one
\* other key is removed and Size() is unchanged; either way k is cached
\* afterwards with value v.
PutAbsentKeySetChange ==
    [][(lastOp'.op = "Put" /\ lastOp'.key \notin DOMAIN refFreq /\ Capacity(l) >= 1) =>
          /\ lastOp'.err = "nil"
          /\ IF Size(l) < Capacity(l)
             THEN /\ DOMAIN l'.index = DOMAIN l.index \cup {lastOp'.key}
                  /\ Size(l') = Size(l) + 1
             ELSE /\ \E e \in DOMAIN l.index \ {lastOp'.key} :
                        DOMAIN l'.index = (DOMAIN l.index \ {e}) \cup {lastOp'.key}
                  /\ Size(l') = Size(l)
          /\ lastOp'.key \in DOMAIN l'.index
          /\ StoredValue(l', lastOp'.key) = lastOp'.value]_vars

\* A Put of an absent key has replaced exactly one key of a cache of the
\* largest capacity.
PutAbsentReplacedOne ==
    /\ lastOp.op = "Put" /\ Cardinality(lastOp.evicted) = 1
    /\ Capacity(l) = MaxCapacity
    /\ lastOp.key \in DOMAIN l.index /\ StoredValue(l, lastOp.key) = lastOp.value

\* C10: iterating All(), to the end or up to any prefix, changes nothing in
\* the cache; what it yields is a prefix of the complete traversal, and an
\* All() right after another one starts again from the same first pair.
AllIsReadOnlyAndRestartable ==
    [][lastOp'.op = "All" =>
          /\ l' = l
          /\ IsPrefix(lastOp'.out, AllPairs(l))
          /\ AllPairs(l') = AllPairs(l)
          /\ lastOp.op = "All" =>
                (IsPrefix(lastOp.out, lastOp'.out) \/ IsPrefix(lastOp'.out, lastOp.out))]_vars

\* All() has been stopped after its first pair on a cache of two keys.
AllStoppedEarly ==
    lastOp.op = "All" /\ Len(lastOp.out) = 1 /\ Size(l) = 2

\* ------------------------------------------------------------ structure
\* The shape of the two levels of lists, read off the pointers.

\* The nodes met from cur by following next (walkNext) or prev (walkPrev),
\* in the order met; fuel bounds the walk, so that it ends on any arena.
RECURSIVE walkNext(_, _, _)
walkNext(nodes, cur, fuel) ==
    IF cur = NIL \/ cur \notin DOMAIN nodes \/ fuel = 0 THEN <<>>
    ELSE <<cur>> \o walkNext(nodes, nodes[cur].next, fuel - 1)

RECURSIVE walkPrev(_, _, _)
walkPrev(nodes, cur, fuel) ==
    IF cur = NIL \/ cur \notin DOMAIN nodes \/ fuel = 0 THEN <<>>
    ELSE <<cur>> \o walkPrev(nodes, nodes[cur].prev, fuel - 1)

\* A list from head to tail, and from tail to head.
Forward(nodes, lst) == walkNext(nodes, lst.head, Cardinality(DOMAIN nodes) + 1)

Backward(nodes, lst) == walkPrev(nodes, lst.tail, Cardinality(DOMAIN nodes) + 1)

Range(seq) == {seq[i] : i \in 1..Len(seq)}

Reverse(seq) == [i \in 1..Len(seq) |-> seq[Len(seq) + 1 - i]]

\* The buckets of the sequence from its head, and the entries of bucket b
\* from the head of its list.
BucketSeq(h) == Forward(h.buckets, h.sequence)

BucketEntries(h, b) == Forward(h.entries, h.buckets[b].data.entries)

BucketFreq(h, b) == h.buckets[b].data.freq

\* C11: in every reachable state no bucket of the sequence with frequency
\* > 1 is empty (a bucket leaves the sequence as soon as its last entry
\* leaves it, by a touch or by an eviction); only the frequency-1 bucket may
\* be empty.
NoEmptyBucketAboveOne ==
    \A b \in Range(BucketSeq(l)) :
        BucketFreq(l, b) > 1 => ~isEmpty(l.buckets[b].data.entries)

\* C12: in every reachable state the bucket sequence holds at most
\* Capacity() + 1 buckets (the frequency-1 bucket and at most one bucket per
\* cached key), after any sequence of Put and Get.
BucketCountWithinCapacity == Len(BucketSeq(l)) <= Capacity(l) + 1

\* C13: in every reachable state the bucket sequence is non-empty, its first
\* bucket has frequency exactly 1 (it is never removed, even when empty) and
\* the frequencies strictly increase from head to tail, so that no two
\* buckets share a frequency.
SequenceStrictlyIncreasingFromOne ==
    \A bs \in {BucketSeq(l)} :
        /\ l.sequence.head # NIL /\ Len(bs) >= 1
        /\ bs[1] = l.sequence.head /\ BucketFreq(l, bs[1]) = 1
        /\ \A i \in 1..(Len(bs) - 1) : BucketFreq(l, bs[i]) < BucketFreq(l, bs[i + 1])
        /\ \A i, j \in 1..Len(bs) :
              BucketFreq(l, bs[i]) = BucketFreq(l, bs[j]) => i = j

\* A touch has just found the bucket of the next frequency already in the
\* sequence, and has left the frequency-1 bucket empty at its head.
TouchedIntoExistingBucket ==
    /\ lastOp.op = "Get" /\ lastOp.err = "nil"
    /\ isEmpty(l.buckets[l.sequence.head].data.entries)
    /\ Len(BucketSeq(l)) >= 2
    /\ \E k \in DOMAIN l.index \ {lastOp.key} :
          l.entries[l.index[k]].data.container = l.entries[l.index[lastOp.key]].data.container

\* The places <<bucket, position>> of the entry lists of the sequence's
\* buckets: one per entry held by a bucket.
EntrySlots(h) ==
    UNION {{<<b, j>> : j \in 1..Len(BucketEntries(h, b))} : b \in Range(BucketSeq(h))}

\* C14: in every reachable state the index and the buckets agree: the entry
\* node of every indexed key sits in exactly one bucket's entry list, once;
\* that bucket is the one the entry's container reference points to and is
\* linked in the sequence; every entry of every bucket is the indexed entry
\* of its key; and the buckets hold len(index) = Size() entries in total.
IndexAgreesWithBuckets ==
    /\ \A k \in DOMAIN l.index :
          /\ l.index[k] \in DOMAIN l.entries
          /\ l.entries[l.index[k]].data.key = k
          /\ l.entries[l.index[k]].data.container \in Range(BucketSeq(l))
          /\ \A b \in Range(BucketSeq(l)) :
                Cardinality({s \in EntrySlots(l) :
                                s[1] = b /\ BucketEntries(l, b)[s[2]] = l.index[k]})
                  = IF b = l.entries[l.index[k]].data.container THEN 1 ELSE 0
    /\ \A s \in EntrySlots(l) :
          \A n \in {BucketEntries(l, s[1])[s[2]]} :
              /\ l.entries[n].data.key \in DOMAIN l.index
              /\ l.index[l.entries[n].data.key] = n
    /\ Cardinality(EntrySlots(l)) = Size(l)

\* Two cached keys sit in two different buckets of frequency > 1.
KeysInDifferentBuckets ==
    \E a, b \in DOMAIN l.index :
        /\ l.entries[l.index[a]].data.container # l.entries[l.index[b]].data.container
        /\ BucketFreq(l, l.entries[l.index[a]].data.container) > 1
        /\ BucketFreq(l, l.entries[l.index[b]].data.container) > 1
        /\ Len(BucketEntries(l, l.entries[l.index[a]].data.container)) = 1

\* The frequency of a cached key: the frequency of the bucket its entry is in.
KeyFreq(h, k) == BucketFreq(h, h.entries[h.index[k]].data.container)

\* C15: across every single operation a key that stays cached keeps or
\* raises its frequency, never lowers or resets it; a key is at frequency 1
\* after having been absent only through a Put of that key, which inserts it.
FrequencyNeverDecreasesWhileCached ==
    [][\A k \in DOMAIN l'.index :
          IF k \in DOMAIN l.index
          THEN KeyFreq(l', k) >= KeyFreq(l, k)
          ELSE /\ lastOp'.op = "Put" /\ lastOp'.key = k
               /\ KeyFreq(l', k) = 1]_vars

\* A Put of a cached key has raised it to frequency 3 and the other cached
\* key, untouched by it, is still above frequency 1.
PutRaisedToThree ==
    /\ lastOp.op = "Put" /\ lastOp.evicted = {}
    /\ lastOp.key \in DOMAIN l.index /\ KeyFreq(l, lastOp.key) = 3
    /\ \E k \in DOMAIN l.index \ {lastOp.key} : KeyFreq(l, k) = 2

\* C16: for capacity >= 1, in every reachable state in which a Put of an
\* absent key would evict (Size() + 1 > Capacity()), the eviction scan from
\* the head of the sequence along next stops at a bucket, and that bucket is
\* not empty: the scan never steps past the tail of the sequence.
EvictionScanStopsAtBucket ==
    (Capacity(l) >= 1 /\ overflow(l)) =>
        \A cur \in {scan(l, l.sequence.head)} :
            /\ cur # NIL
            /\ cur \in Range(BucketSeq(l))
            /\ ~isEmpty(l.buckets[cur].data.entries)

\* The cache is full, its first and last buckets are empty and the scan
\* stops at the bucket between them.
ScanSkipsEmptyFirstBucket ==
    /\ Capacity(l) >= 1 /\ overflow(l)
    /\ Len(BucketSeq(l)) >= 3
    /\ isEmpty(l.buckets[l.sequence.head].data.entries)
    /\ isEmpty(l.buckets[l.sequence.tail].data.entries)
    /\ scan(l, l.sequence.head) = BucketSeq(l)[2]

\* C17: in every reachable state a complete traversal of All() yields
\* exactly Size() pairs: every cached key once, with its current value (the
\* value stored in its entry, which is the value of its latest Put), and no
\* key that was evicted or never inserted.
AllYieldsEveryCachedPairOnce ==
    \A ps \in {AllPairs(l)} :
        /\ Len(ps) = Size(l)
        /\ {ps[i][1] : i \in 1..Len(ps)} = DOMAIN l.index
        /\ DOMAIN l.index = DOMAIN refVal
        /\ \A i, j \in 1..Len(ps) : ps[i][1] = ps[j][1] => i = j
        /\ \A i \in 1..Len(ps) :
              /\ ps[i][2] = StoredValue(l, ps[i][1])
              /\ ps[i][2] = refVal[ps[i][1]]

\* All() has yielded the two pairs of a full cache, with different values,
\* from a sequence that still holds the emptied bucket of an evicted key.
AllAfterEviction ==
    /\ lastOp.op = "All" /\ Len(lastOp.out) = 2 /\ Size(l) = 2
    /\ lastOp.out[1][2] # lastOp.out[2][2]
    /\ \E b \in Range(BucketSeq(l)) :
          BucketFreq(l, b) > 1 /\ isEmpty(l.buckets[b].data.entries)

WellFormed(nodes, lst) ==
    \A fw \in {Forward(nodes, lst)} : \A bw \in {Backward(nodes, lst)} :
        /\ (lst.head = NIL) <=> (lst.tail = NIL)
        /\ lst.head # NIL => (lst.head \in DOMAIN nodes /\ nodes[lst.head].prev = NIL)
        /\ lst.tail # NIL => (lst.tail \in DOMAIN nodes /\ nodes[lst.tail].next = NIL)
        /\ \A x \in Range(fw) \cup Range(bw) :
              /\ nodes[x].next # NIL =>
                    (nodes[x].next \in DOMAIN nodes /\ nodes[nodes[x].next].prev = x)
              /\ nodes[x].prev # NIL =>
                    (nodes[x].prev \in DOMAIN nodes /\ nodes[nodes[x].prev].next = x)
        /\ Len(fw) <= Cardinality(DOMAIN nodes)
        /\ bw = Reverse(fw)

\* C19: in every reachable state the bucket sequence and the entry list of
\* every bucket are well-formed doubly-linked lists: head is nil iff tail is
\* nil, head.prev and tail.next are nil, x.next.prev = x and x.prev.next = x
\* for every linked node x, and the walk along next from head visits the
\* nodes that the walk along prev from tail visits, in reverse order.
ListsWellFormed ==
    /\ WellFormed(l.buckets, l.sequence)
    /\ \A b \in DOMAIN l.buckets \cup Range(BucketSeq(l)) :
          WellFormed(l.entries, l.buckets[b].data.entries)

\* A touch has just moved a key into the middle bucket of three, between
\* the empty frequency-1 bucket and the bucket of the other cached key.
BucketLinkedInTheMiddle ==
    /\ lastOp.op = "Get" /\ lastOp.err = "nil"
    /\ Size(l) = 2 /\ Len(BucketSeq(l)) = 3
    /\ BucketEntries(l, BucketSeq(l)[1]) = <<>>
    /\ BucketEntries(l, BucketSeq(l)[2]) = <<l.index[lastOp.key]>>
    /\ Len(BucketEntries(l, BucketSeq(l)[3])) = 1

====
